---- MODULE Spec2Model ----
(***************************************************************************)
(* Model of the Tonatiuh++ view nodes (SunNode3D, SkyNode3D), the base     *)
(* photon exporter (PhotonsAbstract) and the launcher script.              *)
(*                                                                         *)
(* Angles are integer degrees, restricted to multiples of 90 so that the   *)
(* quaternions of SbRotation are exact: a scalar (p + q*sqrt(2))/2 is the  *)
(* pair <<p, q>>.  The float rounding of static_cast<float> is not         *)
(* modelled.                                                               *)
(***************************************************************************)
EXTENDS Integers, Sequences, FiniteSets, TLC

VARIABLES
    \* SunNode3D and the SunPosition nodes of the scene
    m_sensor,       \* TRUE when SunNode3D::m_sensor is non-null
    m_transform,    \* TRUE when SunNode3D::m_transform is non-null
    attached,       \* m_sensor->getAttachedNode(): a SunPosition or NULL
    scheduled,      \* the node sensor sits in the delay queue
    rotation,       \* m_transform->rotation, a quaternion <<x, y, z, w>>
    azimuth,        \* SunPosition::azimuth of every SunPosition, degrees
    elevation,      \* SunPosition::elevation of every SunPosition, degrees
    \* SkyNode3D
    sky,            \* children of the node, m_skyTransform, nodes below
    \* PhotonsAbstract
    photons,        \* m_sceneModel, m_surfaces and the save flags
    \* launcher script
    pc,             \* line of the script about to run
    installedIn,    \* the directory that holds the script
    cwd,            \* working directory of the shell (path components)
    bashSource,     \* ${BASH_SOURCE[0]}
    scriptArgs,     \* "$@"
    ldAtStart,      \* LD_LIBRARY_PATH in the environment at invocation
    LD_LIBRARY_PATH,
    SCRIPT_DIR,
    INSTALL_ROOT,
    execed,         \* the exec call made: program and argument vector
    \* the last call made on an object, its argument and its result
    lastCall,
    callArg,
    ret

sunVars      == <<m_sensor, m_transform, attached, scheduled, rotation,
                  azimuth, elevation>>
launcherVars == <<pc, installedIn, cwd, bashSource, scriptArgs, ldAtStart,
                  LD_LIBRARY_PATH, SCRIPT_DIR, INSTALL_ROOT, execed>>
callVars     == <<lastCall, callArg, ret>>
vars         == <<sunVars, sky, photons, launcherVars, callVars>>

NULL == "NULL"

----------------------------------------------------------------------------
(* Bounds *)

MaxAzimuthQuarter   == 2    \* azimuth in 0, 90, .., 90 * MaxAzimuthQuarter
MaxElevationQuarter == 0    \* elevation in -90, 0, .., 90 * MaxElevationQuarter
MaxArgs             == 2    \* number of arguments given to the launcher

SunPositions == {"sp1", "sp2"}
Azimuths     == {90 * k : k \in 0..MaxAzimuthQuarter}
Elevations   == {90 * k : k \in -1..MaxElevationQuarter}

----------------------------------------------------------------------------
(* Exact scalars (p + q*sqrt(2))/2 as <<p, q>> *)

Zero == <<0, 0>>
One  == <<2, 0>>

SAdd(a, b) == <<a[1] + b[1], a[2] + b[2]>>
SNeg(a)    == <<0 - a[1], 0 - a[2]>>
SSub(a, b) == SAdd(a, SNeg(b))
SMul(a, b) == <<(a[1] * b[1] + 2 * a[2] * b[2]) \div 2,
                (a[1] * b[2] + a[2] * b[1]) \div 2>>
SInt(n)    == <<2 * n, 0>>

\* cos and sin of half of an angle of deg degrees, deg a multiple of 90
HalfCos(deg) ==
    CASE (deg \div 90) % 8 = 0 -> <<2, 0>>
      [] (deg \div 90) % 8 = 1 -> <<0, 1>>
      [] (deg \div 90) % 8 = 2 -> <<0, 0>>
      [] (deg \div 90) % 8 = 3 -> <<0, -1>>
      [] (deg \div 90) % 8 = 4 -> <<-2, 0>>
      [] (deg \div 90) % 8 = 5 -> <<0, -1>>
      [] (deg \div 90) % 8 = 6 -> <<0, 0>>
      [] OTHER                 -> <<0, 1>>

HalfSin(deg) ==
    CASE (deg \div 90) % 8 = 0 -> <<0, 0>>
      [] (deg \div 90) % 8 = 1 -> <<0, 1>>
      [] (deg \div 90) % 8 = 2 -> <<2, 0>>
      [] (deg \div 90) % 8 = 3 -> <<0, 1>>
      [] (deg \div 90) % 8 = 4 -> <<0, 0>>
      [] (deg \div 90) % 8 = 5 -> <<0, -1>>
      [] (deg \div 90) % 8 = 6 -> <<-2, 0>>
      [] OTHER                 -> <<0, -1>>

----------------------------------------------------------------------------
(* SbRotation *)

\* SbRotation(axis, radians) for a unit axis: (axis * sin(a/2), cos(a/2))
SbRotation(axis, deg) ==
    <<SMul(SInt(axis[1]), HalfSin(deg)),
      SMul(SInt(axis[2]), HalfSin(deg)),
      SMul(SInt(axis[3]), HalfSin(deg)),
      HalfCos(deg)>>

\* operator*(t, q) of SbRotation: t is applied first, then q
SbRotationMul(t, q) ==
    <<SAdd(SAdd(SMul(q[4], t[1]), SMul(q[1], t[4])),
           SSub(SMul(q[2], t[3]), SMul(q[3], t[2]))),
      SAdd(SSub(SMul(q[4], t[2]), SMul(q[1], t[3])),
           SAdd(SMul(q[2], t[4]), SMul(q[3], t[1]))),
      SAdd(SAdd(SMul(q[4], t[3]), SMul(q[1], t[2])),
           SSub(SMul(q[3], t[4]), SMul(q[2], t[1]))),
      SSub(SSub(SMul(q[4], t[4]), SMul(q[1], t[1])),
           SAdd(SMul(q[2], t[2]), SMul(q[3], t[3])))>>

SbRotationIdentity == <<Zero, Zero, Zero, One>>

\* The element of a one-element set; used to compute the two operands of a
\* product once before they are multiplied.
TheValue(S) == CHOOSE v \in S : TRUE

----------------------------------------------------------------------------
(* SunNode3D *)

\* Variant of SunRotation that turns about Z by +azimuth.
SunRotationPlusAzimuth(az, el) ==
    TheValue({SbRotationMul(rx, rz) :
                 rx \in {SbRotation(<<1, 0, 0>>, 90 + el)},
                 rz \in {SbRotation(<<0, 0, 1>>, az)}})

\* The rotation SunNode3D::update assigns for a SunPosition at (az, el):
\* SbRotation(X, 90 + elevation) * SbRotation(Z, -azimuth)
SunRotation(az, el) ==
    TheValue({SbRotationMul(rx, rz) :
                 rx \in {SbRotation(<<1, 0, 0>>, 90 + el)},
                 rz \in {SbRotation(<<0, 0, 1>>, 0 - az)}})

\* SunNode3D::update(data, sensor): the value of m_transform->rotation after
\* the call, when the sensor's attached node is att
update(att) ==
    IF ~m_sensor \/ ~m_transform THEN rotation
    ELSE IF att = NULL THEN rotation
    ELSE SunRotation(azimuth[att], elevation[att])

\* Variant of attach that attaches the sensor and leaves the rotation for
\* the next sensor callback.
attachWithoutUpdate(sp) ==
    /\ lastCall' = "attach"
    /\ callArg' = sp
    /\ ret' = "void"
    /\ IF ~m_sensor
       THEN UNCHANGED <<attached, scheduled>>
       ELSE /\ \E unscheduled \in BOOLEAN :
                 scheduled' = (scheduled /\ ~unscheduled)
            /\ attached' = sp
    /\ UNCHANGED <<m_sensor, m_transform, rotation, azimuth, elevation>>
    /\ UNCHANGED <<sky, photons, launcherVars>>

\* SunNode3D::attach(sp).  SoNodeSensor::detach may or may not take the
\* sensor out of the delay queue; both are allowed.
attach(sp) ==
    /\ lastCall' = "attach"
    /\ callArg' = sp
    /\ ret' = "void"
    /\ IF ~m_sensor
       THEN UNCHANGED <<attached, scheduled, rotation>>
       ELSE /\ \E unscheduled \in BOOLEAN :
                 scheduled' = (scheduled /\ ~unscheduled)
            /\ IF sp # NULL
               THEN /\ attached' = sp
                    /\ rotation' = update(sp)
               ELSE /\ attached' = NULL
                    /\ UNCHANGED rotation
    /\ UNCHANGED <<m_sensor, m_transform, azimuth, elevation>>
    /\ UNCHANGED <<sky, photons, launcherVars>>

\* A change of SunPosition::azimuth: the attached node sensor is notified
\* and put in the delay queue (default priority).
setAzimuth(sp, v) ==
    /\ v # azimuth[sp]
    /\ azimuth' = [azimuth EXCEPT ![sp] = v]
    /\ scheduled' = (scheduled \/ (m_sensor /\ attached = sp))
    /\ lastCall' = "setAzimuth"
    /\ callArg' = NULL
    /\ ret' = "void"
    /\ UNCHANGED <<m_sensor, m_transform, attached, rotation, elevation>>
    /\ UNCHANGED <<sky, photons, launcherVars>>

\* A change of SunPosition::elevation.
setElevation(sp, v) ==
    /\ v # elevation[sp]
    /\ elevation' = [elevation EXCEPT ![sp] = v]
    /\ scheduled' = (scheduled \/ (m_sensor /\ attached = sp))
    /\ lastCall' = "setElevation"
    /\ callArg' = NULL
    /\ ret' = "void"
    /\ UNCHANGED <<m_sensor, m_transform, attached, rotation, azimuth>>
    /\ UNCHANGED <<sky, photons, launcherVars>>

\* The sensor manager processes the delay queue: the sensor is unscheduled
\* and its callback SunNode3D::update(this, sensor) runs.
sensorTrigger ==
    /\ scheduled
    /\ scheduled' = FALSE
    /\ rotation' = update(attached)
    /\ lastCall' = "update"
    /\ callArg' = NULL
    /\ ret' = "void"
    /\ UNCHANGED <<m_sensor, m_transform, attached, azimuth, elevation>>
    /\ UNCHANGED <<sky, photons, launcherVars>>

\* State after SunNode3D::SunNode3D(): create() made m_transform (a new
\* SoTransform has the identity rotation), the sensor is made and detached.
SunInit ==
    /\ m_sensor = TRUE
    /\ m_transform = TRUE
    /\ attached = NULL
    /\ scheduled = FALSE
    /\ rotation = SbRotationIdentity
    /\ azimuth = [sp \in SunPositions |-> 0]
    /\ elevation = [sp \in SunPositions |-> 0]

----------------------------------------------------------------------------
(* SkyNode3D *)

Cameras == {"cam1", "cam2"}

CameraPosition(camera) ==
    IF camera = "cam1" THEN <<0, 0, 10>> ELSE <<5, -5, 2>>

\* The scene graph SkyNode3D::SkyNode3D() builds.
SkyConstructed ==
    [children     |-> <<"m_skyTransform", "depth", "lightModel",
                        "sky", "labels">>,
     skyTransform |-> [translation |-> <<0, 0, 0>>,
                       rotation    |-> SbRotationIdentity],
     below        |-> [n \in {"sky", "labels"} |->
                          IF n = "sky" THEN <<"material", "sphere">>
                          ELSE <<"font", "material", "North", "East",
                                 "South", "West">>]]

\* Variant of updateSkyCamera that moves the sky to the camera.
updateSkyCameraFollows(camera) ==
    /\ sky' = IF camera = NULL THEN sky
              ELSE [sky EXCEPT !.skyTransform.translation =
                                   CameraPosition(camera)]
    /\ lastCall' = "updateSkyCamera"
    /\ callArg' = camera
    /\ ret' = "void"
    /\ UNCHANGED <<sunVars, photons, launcherVars>>

\* SkyNode3D::updateSkyCamera(camera): the body only discards its argument.
updateSkyCamera(camera) ==
    /\ sky' = sky
    /\ lastCall' = "updateSkyCamera"
    /\ callArg' = camera
    /\ ret' = "void"
    /\ UNCHANGED <<sunVars, photons, launcherVars>>

\* SkyNode3D::getRoot()
getRoot ==
    /\ ret' = "this"
    /\ lastCall' = "getRoot"
    /\ callArg' = NULL
    /\ UNCHANGED <<sky, sunVars, photons, launcherVars>>

SkyInit == sky = SkyConstructed

----------------------------------------------------------------------------
(* PhotonsAbstract *)

SceneModels  == {"sceneA", "sceneB"}
SurfaceLists == {<<>>, <<"//Node/Receiver">>,
                 <<"//Node/Receiver", "//Node/Heliostat">>}
ParameterMaps == {<<>>, <<<<"ExportDirectory", "/tmp">>>>,
                  <<<<"ExportDirectory", "/tmp">>, <<"FileSize", "1000">>>>}
PhotonBatches == {"no photons", "one photon", "many photons"}
Powers        == {"0.0", "1.5"}

\* PhotonsSettings objects handed to setPhotonSettings
PhotonsSettings ==
    [surfaces              : SurfaceLists,
     saveCoordinates       : BOOLEAN,
     saveCoordinatesGlobal : BOOLEAN,
     saveSurfaceID         : BOOLEAN,
     saveSurfaceSide       : BOOLEAN,
     savePhotonsID         : BOOLEAN,
     parameters            : ParameterMaps]

\* The default member initializers of the class declaration.
PhotonsDeclared ==
    [m_sceneModel            |-> NULL,
     m_saveAllPhotonsData    |-> FALSE,
     m_surfaces              |-> <<>>,
     m_saveCoordinates       |-> FALSE,
     m_saveCoordinatesGlobal |-> FALSE,
     m_saveSurfaceID         |-> FALSE,
     m_saveSurfaceSide       |-> FALSE,
     m_savePhotonsID         |-> FALSE]

\* PhotonsAbstract::PhotonsAbstract(): the mem-initializer list takes the
\* place of the default member initializers of the members it names.
PhotonsConstructed ==
    [PhotonsDeclared EXCEPT
        !.m_sceneModel            = NULL,
        !.m_saveAllPhotonsData    = FALSE,
        !.m_saveCoordinates       = FALSE,
        !.m_saveCoordinatesGlobal = TRUE,
        !.m_saveSurfaceID         = FALSE,
        !.m_saveSurfaceSide       = FALSE,
        !.m_savePhotonsID         = FALSE]

\* Variant of setParameter that records a parameter in the object.
setParameterStores(self, name, value) ==
    [self EXCEPT !.m_surfaces = Append(self.m_surfaces, value)]

\* The object after the base setParameter(name, value): an empty body.
setParameterBody(self, name, value) == self

\* The object after the loop of setPhotonSettings over ps->parameters.
RECURSIVE setParameters(_, _)
setParameters(self, parameters) ==
    IF parameters = <<>> THEN self
    ELSE setParameters(
            setParameterBody(self, Head(parameters)[1], Head(parameters)[2]),
            Tail(parameters))

\* The value startExport() returns.
startExportResult == "true"

startExport ==
    /\ ret' = startExportResult
    /\ photons' = photons
    /\ lastCall' = "startExport"
    /\ callArg' = NULL
    /\ UNCHANGED <<sunVars, sky, launcherVars>>

savePhotons(batch) ==
    /\ photons' = photons
    /\ lastCall' = "savePhotons"
    /\ callArg' = batch
    /\ ret' = "void"
    /\ UNCHANGED <<sunVars, sky, launcherVars>>

setPhotonPower(p) ==
    /\ photons' = photons
    /\ lastCall' = "setPhotonPower"
    /\ callArg' = p
    /\ ret' = "void"
    /\ UNCHANGED <<sunVars, sky, launcherVars>>

endExport ==
    /\ photons' = photons
    /\ lastCall' = "endExport"
    /\ callArg' = NULL
    /\ ret' = "void"
    /\ UNCHANGED <<sunVars, sky, launcherVars>>

setParameter(name, value) ==
    /\ photons' = setParameterBody(photons, name, value)
    /\ lastCall' = "setParameter"
    /\ callArg' = name
    /\ ret' = "void"
    /\ UNCHANGED <<sunVars, sky, launcherVars>>

setSceneModel(sceneModel) ==
    /\ photons' = [photons EXCEPT !.m_sceneModel = sceneModel]
    /\ lastCall' = "setSceneModel"
    /\ callArg' = sceneModel
    /\ ret' = "void"
    /\ UNCHANGED <<sunVars, sky, launcherVars>>

\* setPhotonSettings(ps) with ps a null pointer: early return
setPhotonSettingsNull ==
    /\ photons' = photons
    /\ lastCall' = "setPhotonSettings"
    /\ callArg' = NULL
    /\ ret' = "void"
    /\ UNCHANGED <<sunVars, sky, launcherVars>>

setPhotonSettings(ps) ==
    /\ photons' = setParameters(
            [photons EXCEPT
                !.m_surfaces              = ps.surfaces,
                !.m_saveCoordinates       = ps.saveCoordinates,
                !.m_saveCoordinatesGlobal = ps.saveCoordinatesGlobal,
                !.m_saveSurfaceID         = ps.saveSurfaceID,
                !.m_saveSurfaceSide       = ps.saveSurfaceSide,
                !.m_savePhotonsID         = ps.savePhotonsID],
            ps.parameters)
    /\ lastCall' = "setPhotonSettings"
    /\ callArg' = "ps"
    /\ ret' = "void"
    /\ UNCHANGED <<sunVars, sky, launcherVars>>

PhotonsInit == photons = PhotonsConstructed

----------------------------------------------------------------------------
(* Launcher script.  A string is a sequence of tokens: "/", ":" or a name; *)
(* a directory is the sequence of the names on its absolute path.          *)

ScriptName == "tonatiuh"
ScriptDirs == {<<>>, <<"bin">>, <<"opt", "tonatiuh", "bin">>,
               <<"home", "user", "t", "bin">>}
WorkDirs   == {<<>>, <<"home", "user">>, <<"opt", "tonatiuh", "bin">>}
LdValues   == {[set |-> FALSE, val |-> <<>>],
               [set |-> TRUE,  val |-> <<>>],
               [set |-> TRUE,  val |-> <<"/", "usr", "lib">>],
               [set |-> TRUE,  val |-> <<"/", "a", ":", "/", "b">>]}
ArgWords   == {"--input", "scene file.tnh"}
ArgLists   == UNION {[1..n -> ArgWords] : n \in 0..MaxArgs}

Front(s)  == SubSeq(s, 1, Len(s) - 1)
Last(s)   == s[Len(s)]
Parent(d) == IF d = <<>> THEN <<>> ELSE Front(d)

\* pwd: the absolute path of a directory as a string
RECURSIVE Pwd(_)
Pwd(d) ==
    IF d = <<>> THEN <<"/">>
    ELSE IF Len(d) = 1 THEN <<"/", d[1]>>
    ELSE Pwd(Front(d)) \o <<"/", Last(d)>>

RECURSIVE StripSlashes(_)
StripSlashes(s) ==
    IF s # <<>> /\ Last(s) = "/" THEN StripSlashes(Front(s)) ELSE s

\* dirname
Dirname(s) ==
    LET a == StripSlashes(s) IN
    IF a = <<>> THEN (IF s = <<>> THEN <<".">> ELSE <<"/">>)
    ELSE LET b == StripSlashes(Front(a)) IN
         IF b # <<>> THEN b
         ELSE IF Front(a) = <<>> THEN <<".">> ELSE <<"/">>

\* cd (logical, as bash does by default): the directory reached from d
RECURSIVE Walk(_, _)
Walk(d, s) ==
    IF s = <<>> THEN d
    ELSE IF Head(s) \in {"/", "."} THEN Walk(d, Tail(s))
    ELSE IF Head(s) = ".." THEN Walk(Parent(d), Tail(s))
    ELSE Walk(d \o <<Head(s)>>, Tail(s))

Cd(d, s) == IF s # <<>> /\ Head(s) = "/" THEN Walk(<<>>, s) ELSE Walk(d, s)

\* ${LD_LIBRARY_PATH}: an unset variable expands to the empty string
Expand(v) == IF v.set THEN v.val ELSE <<>>

\* Line 5: "$(cd "$(dirname "${BASH_SOURCE[0]}")" && pwd)"
ScriptDirValue(dir, source) == Pwd(Cd(dir, Dirname(source)))

\* Line 8: "$(cd "${SCRIPT_DIR}/.." && pwd)"
InstallRootValue(dir, scriptDir) == Pwd(Cd(dir, scriptDir \o <<"/", "..">>))

\* Variant of line 11 that puts the private directory last.
LibraryPathAppended(root, old) == Expand(old) \o <<":">> \o root \o <<"/", "lib">>

\* Line 11: "${INSTALL_ROOT}/lib:${LD_LIBRARY_PATH}"
LibraryPathValue(root, old) == root \o <<"/", "lib", ":">> \o Expand(old)

\* Line 14: exec "${INSTALL_ROOT}/bin/TonatiuhXX" "$@"
ExecValue(root, args) ==
    [path |-> root \o <<"/", "bin", "/", "TonatiuhXX">>, argv |-> args]

\* The ways the script in directory d is started: its path as bash sees
\* it and the working directory.
Invocations(d) ==
    {[source |-> Pwd(d \o <<ScriptName>>), dir |-> w] : w \in WorkDirs}
    \cup {[source |-> <<ScriptName>>, dir |-> d],
          [source |-> <<".", "/", ScriptName>>, dir |-> d]}
    \cup (IF d = <<>> THEN {}
          ELSE {[source |-> <<Last(d), "/", ScriptName>>, dir |-> Parent(d)],
                [source |-> <<"..", "/", Last(d), "/", ScriptName>>,
                 dir |-> Parent(d) \o <<"share">>]})

NoExec == [path |-> <<>>, argv |-> <<>>]

LauncherInit ==
    /\ pc = "idle"
    /\ installedIn = <<>>
    /\ cwd = <<>>
    /\ bashSource = <<>>
    /\ scriptArgs = <<>>
    /\ ldAtStart = [set |-> FALSE, val |-> <<>>]
    /\ LD_LIBRARY_PATH = [set |-> FALSE, val |-> <<>>]
    /\ SCRIPT_DIR = <<>>
    /\ INSTALL_ROOT = <<>>
    /\ execed = NoExec

\* The script, installed in directory d, is started.
Invoke(d, inv, ld, args) ==
    /\ pc = "idle"
    /\ pc' = "line5"
    /\ installedIn' = d
    /\ cwd' = inv.dir
    /\ bashSource' = inv.source
    /\ scriptArgs' = args
    /\ ldAtStart' = ld
    /\ LD_LIBRARY_PATH' = ld
    /\ lastCall' = "launch"
    /\ callArg' = ScriptName
    /\ UNCHANGED <<SCRIPT_DIR, INSTALL_ROOT, execed, ret>>
    /\ UNCHANGED <<sunVars, sky, photons>>

Line5 ==
    /\ pc = "line5"
    /\ pc' = "line8"
    /\ SCRIPT_DIR' = ScriptDirValue(cwd, bashSource)
    /\ UNCHANGED <<installedIn, cwd, bashSource, scriptArgs, ldAtStart, LD_LIBRARY_PATH,
                   INSTALL_ROOT, execed>>
    /\ UNCHANGED <<sunVars, sky, photons, callVars>>

Line8 ==
    /\ pc = "line8"
    /\ pc' = "line11"
    /\ INSTALL_ROOT' = InstallRootValue(cwd, SCRIPT_DIR)
    /\ UNCHANGED <<installedIn, cwd, bashSource, scriptArgs, ldAtStart, LD_LIBRARY_PATH,
                   SCRIPT_DIR, execed>>
    /\ UNCHANGED <<sunVars, sky, photons, callVars>>

Line11 ==
    /\ pc = "line11"
    /\ pc' = "line14"
    /\ LD_LIBRARY_PATH' =
          [set |-> TRUE, val |-> LibraryPathValue(INSTALL_ROOT, LD_LIBRARY_PATH)]
    /\ UNCHANGED <<installedIn, cwd, bashSource, scriptArgs, ldAtStart, SCRIPT_DIR,
                   INSTALL_ROOT, execed>>
    /\ UNCHANGED <<sunVars, sky, photons, callVars>>

Line14 ==
    /\ pc = "line14"
    /\ pc' = "exec"
    /\ execed' = ExecValue(INSTALL_ROOT, scriptArgs)
    /\ UNCHANGED <<installedIn, cwd, bashSource, scriptArgs, ldAtStart, LD_LIBRARY_PATH,
                   SCRIPT_DIR, INSTALL_ROOT>>
    /\ UNCHANGED <<sunVars, sky, photons, callVars>>

----------------------------------------------------------------------------
(* Specifications *)

Init ==
    /\ SunInit
    /\ SkyInit
    /\ PhotonsInit
    /\ LauncherInit
    /\ lastCall = "construct"
    /\ callArg = NULL
    /\ ret = "void"

NextSun ==
    \/ \E sp \in SunPositions \cup {NULL} : attach(sp)
    \/ \E sp \in SunPositions : \E v \in Azimuths : setAzimuth(sp, v)
    \/ \E sp \in SunPositions : \E v \in Elevations : setElevation(sp, v)
    \/ sensorTrigger

NextSky ==
    \/ \E camera \in Cameras \cup {NULL} : updateSkyCamera(camera)
    \/ getRoot

NextView == NextSun \/ NextSky

NextPhotons ==
    \/ startExport
    \/ \E batch \in PhotonBatches : savePhotons(batch)
    \/ \E p \in Powers : setPhotonPower(p)
    \/ endExport
    \/ \E m \in ParameterMaps : \E i \in 1..Len(m) : setParameter(m[i][1], m[i][2])
    \/ \E sceneModel \in SceneModels : setSceneModel(sceneModel)
    \/ setPhotonSettingsNull
    \/ \E ps \in PhotonsSettings : setPhotonSettings(ps)

NextLauncher ==
    \/ \E d \in ScriptDirs : \E inv \in Invocations(d) :
         \E ld \in LdValues : \E args \in ArgLists : Invoke(d, inv, ld, args)
    \/ Line5
    \/ Line8
    \/ Line11
    \/ Line14

Next == NextView \/ NextPhotons \/ NextLauncher

SpecView     == Init /\ [][NextView]_vars
SpecSun      == Init /\ [][NextSun]_vars
\* The sensor manager empties the delay queue whenever the application is
\* idle, so a scheduled sensor is triggered in the end.
SpecSunFair  == SpecSun /\ WF_vars(sensorTrigger)
SpecPhotons  == Init /\ [][NextPhotons]_vars
SpecLauncher == Init /\ [][NextLauncher]_vars
Spec         == Init /\ [][Next]_vars

----------------------------------------------------------------------------
(* Properties *)

\* X turn by 90 + el then Z turn by -az, written out componentwise:
\* (sin(a/2) cos(b/2), sin(a/2) sin(b/2), cos(a/2) sin(b/2), cos(a/2) cos(b/2))
\* with a = 90 + el and b = -az.
ExpectedRotation(az, el) ==
    <<SMul(HalfSin(90 + el), HalfCos(0 - az)),
      SMul(HalfSin(90 + el), HalfSin(0 - az)),
      SMul(HalfCos(90 + el), HalfSin(0 - az)),
      SMul(HalfCos(90 + el), HalfCos(0 - az))>>

InSync ==
    attached # NULL /\
    rotation = ExpectedRotation(azimuth[attached], elevation[attached])

\* C1: when attach(sp) with a non-null sp returns, the sensor is attached to
\* sp and m_transform's rotation is the one of sp's current azimuth and
\* elevation, whatever the node's state and attachment were before.
AttachSyncsSun ==
    (lastCall = "attach" /\ callArg # NULL) =>
        /\ attached = callArg
        /\ rotation = ExpectedRotation(azimuth[callArg], elevation[callArg])

\* C1 witness: attach("sp2") returned while a callback of an earlier
\* attachment is still pending, and the rotation is the one of sp2.
AttachSyncsSunWitness ==
    /\ lastCall = "attach"
    /\ callArg = "sp2"
    /\ scheduled
    /\ azimuth["sp2"] = 90
    /\ elevation["sp2"] = 0
    /\ azimuth["sp1"] = 180
    /\ rotation = ExpectedRotation(90, 0)
    /\ rotation # SbRotationIdentity

\* C2: while a SunPosition is attached, the rotation matches its current
\* azimuth and elevation whenever no sensor callback is pending, and a
\* pending callback leads to a state where it matches (or the node is
\* detached).
SunFollowsPosition ==
    /\ []((attached # NULL /\ ~scheduled) => InSync)
    /\ ((attached # NULL /\ scheduled) ~> (attached = NULL \/ InSync))

\* C2 witness: the sensor callback ran after a change of the attached
\* SunPosition and the rotation is the one of the new values.
SunFollowsPositionWitness ==
    /\ lastCall = "update"
    /\ attached = "sp1"
    /\ ~scheduled
    /\ azimuth["sp1"] = 180
    /\ elevation["sp1"] = -90
    /\ rotation = ExpectedRotation(180, -90)
    /\ rotation # SbRotationIdentity

NoExportCalls ==
    {"startExport", "savePhotons", "setPhotonPower", "endExport",
     "setParameter"}

\* C3: startExport returns true, and no call of startExport, savePhotons,
\* setPhotonPower, endExport or setParameter changes the object's state.
NoExportKeepsState ==
    [][ /\ (lastCall' \in NoExportCalls => photons' = photons)
        /\ (lastCall' = "startExport" => ret' = "true") ]_vars

\* C3 witness: savePhotons returned on an object whose scene model,
\* surfaces and flags were set before, and they are still set.
NoExportKeepsStateWitness ==
    /\ lastCall = "savePhotons"
    /\ callArg = "many photons"
    /\ photons.m_sceneModel = "sceneB"
    /\ photons.m_surfaces # <<>>
    /\ photons.m_savePhotonsID
    /\ ~photons.m_saveCoordinatesGlobal

\* C4: a newly constructed PhotonsAbstract has a null scene model, no
\* surfaces and every save flag false.
NewPhotonsAllFalse ==
    lastCall = "construct" =>
        /\ photons.m_sceneModel = NULL
        /\ photons.m_surfaces = <<>>
        /\ ~photons.m_saveAllPhotonsData
        /\ ~photons.m_saveCoordinates
        /\ ~photons.m_saveCoordinatesGlobal
        /\ ~photons.m_saveSurfaceID
        /\ ~photons.m_saveSurfaceSide
        /\ ~photons.m_savePhotonsID

\* C5: updateSkyCamera leaves the node's children, m_skyTransform and the
\* nodes below unchanged for every camera, and getRoot returns the node.
SkyCameraNoOp ==
    [][ /\ (lastCall' = "updateSkyCamera" => sky' = sky)
        /\ (lastCall' = "getRoot" => ret' = "this") ]_vars

\* C5 witness: updateSkyCamera returned for a camera away from the origin
\* and the sky is as constructed.
SkyCameraNoOpWitness ==
    /\ lastCall = "updateSkyCamera"
    /\ callArg = "cam2"
    /\ sky = SkyConstructed
    /\ sky.skyTransform.translation # CameraPosition("cam2")

\* C6: when the binary is exec'ed, LD_LIBRARY_PATH is exported as
\* <root>/lib, a colon, and the value it had at start (nothing when unset),
\* the binary is <root>/bin/TonatiuhXX and its arguments are the script's,
\* where <root> is the parent of the directory that holds the script.
LauncherPutsLibFirst ==
    pc = "exec" =>
        /\ LD_LIBRARY_PATH.set
        /\ LD_LIBRARY_PATH.val =
              Pwd(Parent(installedIn)) \o <<"/", "lib", ":">> \o
              (IF ldAtStart.set THEN ldAtStart.val ELSE <<>>)
        /\ execed.path =
              Pwd(Parent(installedIn)) \o <<"/", "bin", "/", "TonatiuhXX">>
        /\ execed.argv = scriptArgs

\* C6 witness: the script, started by a relative path with two arguments
\* and a non-empty LD_LIBRARY_PATH, has exec'ed the binary.
LauncherPutsLibFirstWitness ==
    /\ pc = "exec"
    /\ installedIn = <<"opt", "tonatiuh", "bin">>
    /\ bashSource = <<"..", "/", "bin", "/", "tonatiuh">>
    /\ ldAtStart = [set |-> TRUE, val |-> <<"/", "usr", "lib">>]
    /\ LD_LIBRARY_PATH.val =
          <<"/", "opt", "/", "tonatiuh", "/", "lib", ":", "/", "usr", "lib">>
    /\ execed.argv = <<"--input", "scene file.tnh">>

====
